---- MODULE Spec2Model ----
(***************************************************************************)
(* Guardian reputation engine of Galamsey-Monitor: the rank resolver, the  *)
(* badge evaluator (lib/guardian), the outcome handler                     *)
(* (api/incidents/[id]/outcomes), the incident verification handler        *)
(* (api/incidents/[id]), registration and the guardian profile handlers,   *)
(* over the tables of migration 002_guardian_system.sql.                   *)
(***************************************************************************)
EXTENDS Integers, Sequences, FiniteSets, TLC

VARIABLES
    users,              \* users table: row id = index
    incidents,          \* incidents table: row id = index
    incident_outcomes,  \* incident_outcomes table: row id = index
    user_activities,    \* user_activities table (append-only log)
    user_badges,        \* user_badges table: set of (user_id, badge_id) rows
    incident_updates,   \* number of rows of incident_updates
    api_keys,           \* api_keys table: row id = index
    call                \* the library call under examination (pure-function specifications)

vars == <<users, incidents, incident_outcomes, user_activities, user_badges,
          incident_updates, api_keys, call>>

dbvars == <<users, incidents, incident_outcomes, user_activities, user_badges,
            incident_updates, api_keys>>

-----------------------------------------------------------------------------
(* Bounds *)

MaxUsers == 2
MaxImported == 5
MaxNewIncidents == 1
MaxUpdates == 1
MaxDelta == 2
MaxCredits == 2
MaxExisting == 1
MaxRequests == 2

-----------------------------------------------------------------------------
(* lib/guardian: rank ladder *)

GuardianRank == {"observer", "bronze", "silver", "gold", "diamond"}

ranks == <<"observer", "bronze", "silver", "gold", "diamond">>

RankIndex(r) == CHOOSE i \in 1..Len(ranks) : ranks[i] = r

RANK_REQUIREMENTS ==
    [r \in GuardianRank |->
        CASE r = "observer" -> [min_verified |-> 0,   min_points |-> 0]
          [] r = "bronze"   -> [min_verified |-> 5,   min_points |-> 50]
          [] r = "silver"   -> [min_verified |-> 20,  min_points |-> 200]
          [] r = "gold"     -> [min_verified |-> 50,  min_points |-> 500]
          [] r = "diamond"  -> [min_verified |-> 100, min_points |-> 1000]]

calculateRank_or(verifiedReports, points) ==
    IF verifiedReports >= 100 \/ points >= 1000 THEN "diamond"
    ELSE IF verifiedReports >= 50 \/ points >= 500 THEN "gold"
    ELSE IF verifiedReports >= 20 \/ points >= 200 THEN "silver"
    ELSE IF verifiedReports >= 5 \/ points >= 50 THEN "bronze"
    ELSE "observer"

calculateRank_silver25(verifiedReports, points) ==
    IF verifiedReports >= 100 /\ points >= 1000 THEN "diamond"
    ELSE IF verifiedReports >= 50 /\ points >= 500 THEN "gold"
    ELSE IF verifiedReports >= 25 /\ points >= 200 THEN "silver"
    ELSE IF verifiedReports >= 5 /\ points >= 50 THEN "bronze"
    ELSE "observer"

calculateRank_flipped(verifiedReports, points) ==
    IF verifiedReports >= 100 /\ points >= 1000 THEN "diamond"
    ELSE IF verifiedReports >= 50 /\ points >= 500 THEN "gold"
    ELSE IF verifiedReports >= 20 /\ points <= 200 THEN "silver"
    ELSE IF verifiedReports >= 5 /\ points >= 50 THEN "bronze"
    ELSE "observer"

calculateRank(verifiedReports, points) ==
    IF verifiedReports >= 100 /\ points >= 1000 THEN "diamond"
    ELSE IF verifiedReports >= 50 /\ points >= 500 THEN "gold"
    ELSE IF verifiedReports >= 20 /\ points >= 200 THEN "silver"
    ELSE IF verifiedReports >= 5 /\ points >= 50 THEN "bronze"
    ELSE "observer"

\* Math.min
Math_min(a, b) == IF a < b THEN a ELSE b

getRankProgress_final(currentRank, verifiedReports, points) ==
    LET currentIndex == RankIndex(currentRank) - 1
    IN  IF currentIndex = Len(ranks) - 1
        THEN [nextRank |-> "NULL", verifiedProgress |-> 1000, pointsProgress |-> 1000]
        ELSE LET nextRank == ranks[(currentIndex + 1) + 1]
                 requirements == RANK_REQUIREMENTS[ranks[Len(ranks)]]
             IN  [nextRank |-> nextRank,
                  verifiedProgress |->
                      Math_min(1000, (verifiedReports * 1000) \div requirements.min_verified),
                  pointsProgress |->
                      Math_min(1000, (points * 1000) \div requirements.min_points)]

\* currentIndex is the 0-based ranks.indexOf(currentRank); the progress values
\* (x / min) * 100 are in tenths of a percent, which every threshold of the
\* table divides exactly
getRankProgress(currentRank, verifiedReports, points) ==
    LET currentIndex == RankIndex(currentRank) - 1
    IN  IF currentIndex = Len(ranks) - 1
        THEN [nextRank |-> "NULL", verifiedProgress |-> 1000, pointsProgress |-> 1000]
        ELSE LET nextRank == ranks[(currentIndex + 1) + 1]
                 requirements == RANK_REQUIREMENTS[nextRank]
             IN  [nextRank |-> nextRank,
                  verifiedProgress |->
                      Math_min(1000, (verifiedReports * 1000) \div requirements.min_verified),
                  pointsProgress |->
                      Math_min(1000, (points * 1000) \div requirements.min_points)]

-----------------------------------------------------------------------------
(* lib/guardian: badge catalog and badge evaluator *)

BADGES ==
    [first_report     |-> [id |-> "first_report",     points |-> 10],
     verified_5       |-> [id |-> "verified_5",       points |-> 50],
     verified_20      |-> [id |-> "verified_20",      points |-> 100],
     verified_50      |-> [id |-> "verified_50",      points |-> 250],
     enforcement_1    |-> [id |-> "enforcement_1",    points |-> 100],
     enforcement_5    |-> [id |-> "enforcement_5",    points |-> 500],
     water_guardian   |-> [id |-> "water_guardian",   points |-> 75],
     forest_protector |-> [id |-> "forest_protector", points |-> 75],
     early_bird       |-> [id |-> "early_bird",       points |-> 25],
     photo_evidence   |-> [id |-> "photo_evidence",   points |-> 50],
     voice_reporter   |-> [id |-> "voice_reporter",   points |-> 30],
     regional_expert  |-> [id |-> "regional_expert",  points |-> 100],
     streak_7         |-> [id |-> "streak_7",         points |-> 50],
     streak_30        |-> [id |-> "streak_30",        points |-> 150]]

BadgeIds == DOMAIN BADGES

\* newBadges.push(BADGES.x) under a condition: the pushed badge, by id
PushIf(cond, badge) == IF cond THEN <<badge.id>> ELSE <<>>

FirstReportBadge(stats) ==
    PushIf(stats.reports_submitted >= 1 /\ "first_report" \notin stats.existing_badges,
           BADGES.first_report)

VerifiedMilestones_gt(stats) ==
       PushIf(stats.reports_verified >= 5 /\ "verified_5" \notin stats.existing_badges,
              BADGES.verified_5)
    \o PushIf(stats.reports_verified > 20 /\ "verified_20" \notin stats.existing_badges,
              BADGES.verified_20)
    \o PushIf(stats.reports_verified >= 50 /\ "verified_50" \notin stats.existing_badges,
              BADGES.verified_50)

VerifiedMilestones(stats) ==
       PushIf(stats.reports_verified >= 5 /\ "verified_5" \notin stats.existing_badges,
              BADGES.verified_5)
    \o PushIf(stats.reports_verified >= 20 /\ "verified_20" \notin stats.existing_badges,
              BADGES.verified_20)
    \o PushIf(stats.reports_verified >= 50 /\ "verified_50" \notin stats.existing_badges,
              BADGES.verified_50)

EnforcementMilestones_nocheck(stats) ==
       PushIf(stats.enforcement_actions >= 1,
              BADGES.enforcement_1)
    \o PushIf(stats.enforcement_actions >= 5 /\ "enforcement_5" \notin stats.existing_badges,
              BADGES.enforcement_5)

EnforcementMilestones(stats) ==
       PushIf(stats.enforcement_actions >= 1 /\ "enforcement_1" \notin stats.existing_badges,
              BADGES.enforcement_1)
    \o PushIf(stats.enforcement_actions >= 5 /\ "enforcement_5" \notin stats.existing_badges,
              BADGES.enforcement_5)

CategoryBadges(stats) ==
       PushIf(stats.water_reports >= 10 /\ "water_guardian" \notin stats.existing_badges,
              BADGES.water_guardian)
    \o PushIf(stats.deforestation_reports >= 10
                /\ "forest_protector" \notin stats.existing_badges,
              BADGES.forest_protector)

ActivityBadges(stats) ==
       PushIf(stats.evidence_count >= 50 /\ "photo_evidence" \notin stats.existing_badges,
              BADGES.photo_evidence)
    \o PushIf(stats.voice_reports >= 10 /\ "voice_reporter" \notin stats.existing_badges,
              BADGES.voice_reporter)

StreakBadges(stats) ==
       PushIf(stats.activity_streak >= 7 /\ "streak_7" \notin stats.existing_badges,
              BADGES.streak_7)
    \o PushIf(stats.activity_streak >= 30 /\ "streak_30" \notin stats.existing_badges,
              BADGES.streak_30)

RegionalExpertBadge(stats) ==
    PushIf(stats.is_regional_top /\ "regional_expert" \notin stats.existing_badges,
           BADGES.regional_expert)

checkEarnedBadges(stats) ==
       FirstReportBadge(stats)
    \o VerifiedMilestones(stats)
    \o EnforcementMilestones(stats)
    \o CategoryBadges(stats)
    \o ActivityBadges(stats)
    \o StreakBadges(stats)
    \o RegionalExpertBadge(stats)

SeqRange(s) == {s[i] : i \in 1..Len(s)}

-----------------------------------------------------------------------------
(* Static tables *)

ACTIVITY_POINTS ==
    [report_submitted      |-> 5,
     report_verified       |-> 15,
     report_rejected       |-> 0,
     enforcement_triggered |-> 50,
     badge_earned          |-> 0,
     rank_promoted         |-> 25,
     comment_added         |-> 2,
     evidence_uploaded     |-> 5,
     alert_subscription    |-> 3]

\* impact weights, in tenths (2.5 is 25)
OUTCOME_WEIGHTS ==
    [investigation_opened  |-> 10,
     site_visit_conducted  |-> 20,
     warning_issued        |-> 25,
     equipment_seized      |-> 40,
     site_closed           |-> 50,
     arrests_made          |-> 50,
     remediation_started   |-> 60,
     remediation_completed |-> 80,
     case_dismissed        |-> 0]

validOutcomeTypes == DOMAIN OUTCOME_WEIGHTS

UserRole == {"citizen", "moderator", "admin", "authority"}

NULL == "NULL"

\* NULL in an INTEGER REFERENCES users(id) column (row ids start at 1)
NoUser == 0

-----------------------------------------------------------------------------
(* Inputs of the handlers *)

Names == {"Ama", "Kofi"}

OutcomeTypeInputs == {"site_closed", "warning_issued", "case_dismissed"}

VerificationInputs == {"verified", "rejected"}

MaxIncidents == MaxImported + MaxNewIncidents

\* incident ids the requests address: the last imported incident and the new ones
IncidentIdInputs == MaxImported..MaxIncidents

-----------------------------------------------------------------------------
(* Database after schema, seed and legacy import *)

\* a users row with the column defaults of migration 002
NewUser(name, role) ==
    [name                |-> name,
     role                |-> role,
     guardian_rank       |-> "observer",
     guardian_points     |-> 0,
     reports_submitted   |-> 0,
     reports_verified    |-> 0,
     enforcement_actions |-> 0,
     display_name        |-> NULL,
     bio                 |-> NULL,
     show_on_leaderboard |-> 1]

\* an incidents row as the legacy import writes it (d1-import COLUMN_MAPS.incidents)
ImportedIncident(name, status) ==
    [reported_by |-> name, verification_status |-> status,  verified_by |-> NoUser]

NoCall == [fn |-> "none"]

InitDb ==
    /\ \E role \in UserRole : users = <<NewUser("Kofi", role)>>
    /\ incidents = [i \in 1..MaxImported |-> ImportedIncident("Ama", "verified")]
    /\ incident_outcomes = <<>>
    /\ user_activities = <<>>
    /\ user_badges = {}
    /\ incident_updates = 0
    /\ api_keys = <<>>

Init ==
    /\ InitDb
    /\ call = NoCall

-----------------------------------------------------------------------------
(* POST /api/users/register -> createUser *)

createUser(name) ==
    /\ Len(users) < MaxUsers
    /\ users' = Append(users, NewUser(name, "citizen"))
    /\ UNCHANGED <<incidents, incident_outcomes, user_activities, user_badges,
                   incident_updates, api_keys, call>>

(* POST /api/incidents -> createIncident *)

createIncident(reported_by) ==
    /\ Len(incidents) < MaxIncidents
    /\ incidents' = Append(incidents,
                        [reported_by |-> reported_by,
                         verification_status |-> "pending",
                          verified_by |-> NoUser])
    /\ UNCHANGED <<users, incident_outcomes, user_activities, user_badges,
                   incident_updates, api_keys, call>>

(* PATCH /api/incidents/[id] with body.verification_status
   -> updateIncidentVerification *)

CanVerifyIncidents(role) == role \in {"admin", "moderator", "authority"}

PATCH_incident(session, id, verification_status) ==
    /\ session \in 1..Len(users)
    /\ id \in 1..Len(incidents)
    /\ CanVerifyIncidents(users[session].role)
    /\ incident_updates < MaxUpdates
    /\ incident_updates' = incident_updates + 1
    /\ incidents' = [incidents EXCEPT ![id].verification_status = verification_status,
                                      ![id].verified_by = session]
    /\ UNCHANGED <<users, incident_outcomes, user_activities, user_badges, api_keys,
                   call>>

-----------------------------------------------------------------------------
(* POST /api/incidents/[id]/outcomes *)

isPrivileged_adminonly(role) == role \in {"admin"}

isPrivileged(role) == role \in {"moderator", "admin", "authority"}

IsEnforcementOutcome_any(outcome_type) ==
    outcome_type \in {"site_closed", "equipment_seized", "arrests_made", "case_dismissed"}

IsEnforcementOutcome(outcome_type) ==
    outcome_type \in {"site_closed", "equipment_seized", "arrests_made"}

UsersNamed_anyone(name) == 1..Len(users)

\* SELECT id FROM users WHERE name = ?  (rows that match; .first() takes one)
UsersNamed(name) == {u \in 1..Len(users) : users[u].name = name}

NewOutcome_default(session, incidentId, outcome_type) ==
    [incident_id  |-> incidentId,
     outcome_type |-> outcome_type,
     reported_by  |-> session,
     verified     |-> IF isPrivileged(users[session].role) THEN 1 ELSE 0,
     verified_by  |-> IF isPrivileged(users[session].role) THEN session ELSE NoUser,
     impact_score |-> 0]

NewOutcome(session, incidentId, outcome_type) ==
    [incident_id  |-> incidentId,
     outcome_type |-> outcome_type,
     reported_by  |-> session,
     verified     |-> IF isPrivileged(users[session].role) THEN 1 ELSE 0,
     verified_by  |-> IF isPrivileged(users[session].role) THEN session ELSE NoUser,
     impact_score |-> OUTCOME_WEIGHTS[outcome_type]]

CreditReporter_minus(reporterUser) ==
    [users EXCEPT ![reporterUser].enforcement_actions = @ + 1,
                  ![reporterUser].guardian_points = @ - ACTIVITY_POINTS.enforcement_triggered]

\* the counters recomputed from the activity log and written back
CreditReporter_fromlog(reporterUser) ==
    LET logged == {k \in 1..Len(user_activities) : user_activities[k].user_id = reporterUser}
    IN  [users EXCEPT ![reporterUser].enforcement_actions = Cardinality(logged) + 1,
                      ![reporterUser].guardian_points =
                          ACTIVITY_POINTS.enforcement_triggered * (Cardinality(logged) + 1)]

CreditReporter(reporterUser) ==
    [users EXCEPT ![reporterUser].enforcement_actions = @ + 1,
                  ![reporterUser].guardian_points = @ + ACTIVITY_POINTS.enforcement_triggered]

EnforcementActivity_nopoints(reporterUser, incidentId, outcome_type) ==
    [user_id       |-> reporterUser,
     activity_type |-> "enforcement_triggered",
     incident_id   |-> incidentId,
     points_earned |-> 0,
     metadata      |-> outcome_type]

EnforcementActivity(reporterUser, incidentId, outcome_type) ==
    [user_id       |-> reporterUser,
     activity_type |-> "enforcement_triggered",
     incident_id   |-> incidentId,
     points_earned |-> ACTIVITY_POINTS.enforcement_triggered,
     metadata      |-> outcome_type]

POST_outcome(session, incidentId, outcome_type) ==
    /\ session \in 1..Len(users)
    /\ incidentId \in 1..Len(incidents)
    /\ outcome_type \in validOutcomeTypes
    /\ incident_updates < MaxUpdates
    /\ incident_outcomes' =
          Append(incident_outcomes, NewOutcome(session, incidentId, outcome_type))
    /\ IF /\ isPrivileged(users[session].role)
          /\ IsEnforcementOutcome(outcome_type)
          /\ UsersNamed(incidents[incidentId].reported_by) # {}
       THEN \E reporterUser \in UsersNamed(incidents[incidentId].reported_by) :
               /\ users' = CreditReporter(reporterUser)
               /\ user_activities' =
                     Append(user_activities,
                            EnforcementActivity(reporterUser, incidentId, outcome_type))
       ELSE UNCHANGED <<users, user_activities>>
    /\ incident_updates' = incident_updates + 1
    /\ UNCHANGED <<incidents, user_badges, api_keys, call>>

-----------------------------------------------------------------------------
(* PATCH /api/guardian/profile *)

\* COALESCE(?, column) with the bound value  body.field || null
CoalesceText(body, field, column) ==
    IF field \in DOMAIN body THEN body[field] ELSE column

\* COALESCE(?, show_on_leaderboard) with the bound value
\* show_on_leaderboard !== undefined ? (show_on_leaderboard ? 1 : 0) : null
CoalesceShow(body, column) ==
    IF "show_on_leaderboard" \in DOMAIN body
    THEN (IF body.show_on_leaderboard THEN 1 ELSE 0)
    ELSE column

\* the UPDATE without its WHERE id = ?
PATCH_profile_everyone(session, body) ==
    /\ session \in 1..Len(users)
    /\ users' = [u \in 1..Len(users) |-> [users[u] EXCEPT
          !.display_name = CoalesceText(body, "display_name", @),
          !.bio = CoalesceText(body, "bio", @),
          !.show_on_leaderboard = CoalesceShow(body, @)]]
    /\ users' # users
    /\ UNCHANGED <<incidents, incident_outcomes, user_activities, user_badges,
                   incident_updates, api_keys, call>>

PATCH_profile(session, body) ==
    /\ session \in 1..Len(users)
    /\ users' = [users EXCEPT
          ![session].display_name = CoalesceText(body, "display_name", @),
          ![session].bio = CoalesceText(body, "bio", @),
          ![session].show_on_leaderboard = CoalesceShow(body, @)]
    /\ users' # users
    /\ UNCHANGED <<incidents, incident_outcomes, user_activities, user_badges,
                   incident_updates, api_keys, call>>

\* request bodies of PATCH /api/guardian/profile
ProfileInputs ==
    { [display_name |-> "Guardian", bio |-> "bio", show_on_leaderboard |-> FALSE],
      [show_on_leaderboard |-> TRUE] }

-----------------------------------------------------------------------------
(* GET /api/guardian/profile: the values the handler derives *)

\* reportStats.verified: incidents of the user's name with verification_status 'verified'
VerifiedReportsOf(u) ==
    Cardinality({i \in 1..Len(incidents) :
                    /\ incidents[i].reported_by = users[u].name
                    /\ incidents[i].verification_status = "verified"})

\* outcomeStats.sites_closed: outcomes of type site_closed joined to the incidents
\* of the user's name
sites_closed(u) ==
    Cardinality({k \in 1..Len(incident_outcomes) :
                    /\ incidents[incident_outcomes[k].incident_id].reported_by = users[u].name
                    /\ incident_outcomes[k].outcome_type = "site_closed"})

calculateEnvironmentalImpact_round(stats) ==
    [hectares_protected |-> stats.verified_reports * 5
                              + stats.enforcement_actions * 20
                              + stats.sites_closed * 100,
     water_bodies_saved |-> ((stats.verified_reports + 5) \div 10) + stats.sites_closed * 1]

\* lib/guardian calculateEnvironmentalImpact; hectares_protected in tenths
\* (Math.round(h * 10) / 10 of a multiple of 0.5 is h itself)
calculateEnvironmentalImpact(stats) ==
    [hectares_protected |-> stats.verified_reports * 5
                              + stats.enforcement_actions * 20
                              + stats.sites_closed * 100,
     water_bodies_saved |-> (stats.verified_reports \div 10) + stats.sites_closed * 1]

\* impact of the profile response
ProfileImpact(u) ==
    calculateEnvironmentalImpact(
        [verified_reports    |-> VerifiedReportsOf(u),
         enforcement_actions |-> users[u].enforcement_actions,
         sites_closed        |-> sites_closed(u)])

-----------------------------------------------------------------------------
(* GET /api/incidents/[id]/outcomes: total_impact_score *)

RECURSIVE ReduceImpact_all(_, _)
ReduceImpact_all(outcomes, sum) ==
    IF outcomes = <<>> THEN sum
    ELSE ReduceImpact_all(Tail(outcomes), sum + Head(outcomes).impact_score)

\* outcomes.reduce((sum, o) => o.verified ? sum + o.impact_score : sum, 0)
RECURSIVE ReduceImpact(_, _)
ReduceImpact(outcomes, sum) ==
    IF outcomes = <<>> THEN sum
    ELSE ReduceImpact(Tail(outcomes),
                      IF Head(outcomes).verified = 1
                      THEN sum + Head(outcomes).impact_score
                      ELSE sum)

\* WHERE io.incident_id = ?
OutcomesOf(incidentId) ==
    SelectSeq(incident_outcomes, LAMBDA o : o.incident_id = incidentId)

total_impact_score(incidentId) == ReduceImpact(OutcomesOf(incidentId), 0)

-----------------------------------------------------------------------------

Next ==
    \/ \E name \in Names : createUser(name)
    \/ \E reported_by \in Names : createIncident(reported_by)
    \/ \E s \in 1..MaxUsers, id \in IncidentIdInputs, st \in VerificationInputs :
          PATCH_incident(s, id, st)
    \/ \E s \in 1..MaxUsers, id \in IncidentIdInputs, t \in OutcomeTypeInputs :
          POST_outcome(s, id, t)
    \/ \E s \in 1..MaxUsers, b \in ProfileInputs :
          PATCH_profile(s, b)

Spec == Init /\ [][Next]_vars

-----------------------------------------------------------------------------
(* Calls of the pure library functions: the database stays as installed *)

FreshDb ==
    /\ users = <<NewUser("Kofi", "admin")>>
    /\ incidents = <<>>
    /\ incident_outcomes = <<>>
    /\ user_activities = <<>>
    /\ user_badges = {}
    /\ incident_updates = 0
    /\ api_keys = <<>>

\* values within MaxDelta of a threshold
Near(t) == {n \in (t - MaxDelta)..(t + MaxDelta) : n >= 0}

VerifiedInputs == UNION {Near(RANK_REQUIREMENTS[r].min_verified) : r \in GuardianRank}

PointsInputs == UNION {Near(RANK_REQUIREMENTS[r].min_points) : r \in GuardianRank}

RankInit ==
    /\ FreshDb
    /\ \E v \in VerifiedInputs, p \in PointsInputs :
          call = [fn |-> "calculateRank", verifiedReports |-> v, points |-> p,
                  returned |-> FALSE, result |-> NULL]

Call_calculateRank ==
    /\ call.fn = "calculateRank"
    /\ ~call.returned
    /\ call' = [call EXCEPT !.returned = TRUE,
                            !.result = calculateRank(call.verifiedReports, call.points)]
    /\ UNCHANGED dbvars

RankNext == Call_calculateRank

RankSpec == RankInit /\ [][RankNext]_vars

\* stats snapshots: each field below and at its thresholds
StatsInputs ==
    [reports_submitted     : {0, 1},
     reports_verified      : {4, 5, 20, 50},
     enforcement_actions   : {0, 1, 5},
     water_reports         : {9, 10},
     deforestation_reports : {9, 10},
     evidence_count        : {49, 50},
     voice_reports         : {9, 10},
     activity_streak       : {6, 7, 30},
     is_regional_top       : BOOLEAN]

ExistingInputs == {E \in SUBSET BadgeIds : Cardinality(E) <= MaxExisting}

WithExisting(s, E) ==
    [reports_submitted     |-> s.reports_submitted,
     reports_verified      |-> s.reports_verified,
     enforcement_actions   |-> s.enforcement_actions,
     water_reports         |-> s.water_reports,
     deforestation_reports |-> s.deforestation_reports,
     evidence_count        |-> s.evidence_count,
     voice_reports         |-> s.voice_reports,
     activity_streak       |-> s.activity_streak,
     is_regional_top       |-> s.is_regional_top,
     existing_badges       |-> E]

BadgeInit ==
    /\ FreshDb
    /\ \E s \in StatsInputs, E \in ExistingInputs :
          call = [fn |-> "checkEarnedBadges", stats |-> WithExisting(s, E),
                  round |-> 0, result |-> <<>>]

\* the evaluator is called on the snapshot
Call_checkEarnedBadges ==
    /\ call.fn = "checkEarnedBadges"
    /\ call.round = 0
    /\ call' = [call EXCEPT !.round = 1, !.result = checkEarnedBadges(call.stats)]
    /\ UNCHANGED dbvars

\* the returned ids join the earned set and the evaluator is called again
Recall_checkEarnedBadges ==
    /\ call.fn = "checkEarnedBadges"
    /\ call.round = 1
    /\ LET again == WithExisting(call.stats,
                        call.stats.existing_badges \cup SeqRange(call.result))
       IN call' = [call EXCEPT !.round = 2, !.stats = again,
                               !.result = checkEarnedBadges(again)]
    /\ UNCHANGED dbvars

BadgeNext ==
    \/ Call_checkEarnedBadges
    \/ Recall_checkEarnedBadges

BadgeSpec == BadgeInit /\ [][BadgeNext]_vars

-----------------------------------------------------------------------------
(* Calls of getRankProgress, calculateEnvironmentalImpact and the points table,
   and calls of the library with a negative count *)

ActivityType == DOMAIN ACTIVITY_POINTS

\* the activity types, and a string that is none of them
ActivityTypeInputs == ActivityType \cup {"bonus_awarded"}

\* a count below zero
NegativeInputs == {-1}

\* table[key] of a plain object: undefined for a key the object does not have
PropertyOf(table, key) ==
    IF key \in DOMAIN table THEN table[key] ELSE "undefined"

ImpactInputs ==
    [verified_reports    : Near(0) \cup Near(10) \cup Near(20) \cup NegativeInputs,
     enforcement_actions : 0..MaxDelta,
     sites_closed        : 0..MaxDelta]

NegativeStats ==
    [reports_submitted     |-> 1,
     reports_verified      |-> -1,
     enforcement_actions   |-> -1,
     water_reports         |-> 0,
     deforestation_reports |-> 0,
     evidence_count        |-> 0,
     voice_reports         |-> 0,
     activity_streak       |-> 0,
     is_regional_top       |-> FALSE]

LibraryInit ==
    /\ FreshDb
    /\ \/ \E r \in GuardianRank, v \in VerifiedInputs \cup NegativeInputs,
             p \in PointsInputs \cup NegativeInputs :
             call = [fn |-> "getRankProgress", currentRank |-> r,
                     verifiedReports |-> v, points |-> p,
                     returned |-> FALSE, result |-> NULL]
       \/ \E stats \in ImpactInputs :
             call = [fn |-> "calculateEnvironmentalImpact", stats |-> stats,
                     returned |-> FALSE, result |-> NULL]
       \/ \E type \in ActivityTypeInputs :
             call = [fn |-> "ACTIVITY_POINTS", type |-> type,
                     returned |-> FALSE, result |-> NULL]
       \/ \E v \in NegativeInputs \cup {5}, p \in NegativeInputs \cup {50} :
             call = [fn |-> "calculateRank", verifiedReports |-> v, points |-> p,
                     returned |-> FALSE, result |-> NULL]
       \/ call = [fn |-> "checkEarnedBadges", stats |-> WithExisting(NegativeStats, {}),
                  round |-> 0, result |-> <<>>]

Call_getRankProgress ==
    /\ call.fn = "getRankProgress"
    /\ ~call.returned
    /\ call' = [call EXCEPT
          !.returned = TRUE,
          !.result = getRankProgress(call.currentRank, call.verifiedReports, call.points)]
    /\ UNCHANGED dbvars

Call_calculateEnvironmentalImpact ==
    /\ call.fn = "calculateEnvironmentalImpact"
    /\ ~call.returned
    /\ call' = [call EXCEPT !.returned = TRUE,
                            !.result = calculateEnvironmentalImpact(call.stats)]
    /\ UNCHANGED dbvars

\* ACTIVITY_POINTS[type]
Read_ACTIVITY_POINTS ==
    /\ call.fn = "ACTIVITY_POINTS"
    /\ ~call.returned
    /\ call' = [call EXCEPT !.returned = TRUE,
                            !.result = PropertyOf(ACTIVITY_POINTS, call.type)]
    /\ UNCHANGED dbvars

LibraryNext ==
    \/ Call_getRankProgress
    \/ Call_calculateEnvironmentalImpact
    \/ Read_ACTIVITY_POINTS
    \/ Call_calculateRank
    \/ Call_checkEarnedBadges

LibrarySpec == LibraryInit /\ [][LibraryNext]_vars

-----------------------------------------------------------------------------
(* GET /api/guardian/leaderboard *)

Periods == {"all_time", "weekly", "monthly"}

Categories == {"points", "reports", "verified", "enforcement"}

\* ?limit= values: the top entry only, and the default
LimitInputs == {1, 25}

\* switch (category): the users column the query orders by and selects as score
orderBy(category) ==
    CASE category = "reports"     -> "reports_submitted"
      [] category = "verified"    -> "reports_verified"
      [] category = "enforcement" -> "enforcement_actions"
      [] OTHER                    -> "guardian_points"

AllTimeWhere_everyone(u, category) ==
    users[u][orderBy(category)] > 0 \/ users[u].guardian_points > 0

\* WHERE show_on_leaderboard = 1 AND (${orderBy} > 0 OR guardian_points > 0)
AllTimeWhere(u, category) ==
    /\ users[u].show_on_leaderboard = 1
    /\ (users[u][orderBy(category)] > 0 \/ users[u].guardian_points > 0)

\* the selected columns of a users row
AllTimeRow(u, category) ==
    [user_id       |-> u,
     display_name  |-> IF users[u].display_name # NULL
                       THEN users[u].display_name ELSE users[u].name,
     guardian_rank |-> users[u].guardian_rank,
     score         |-> users[u][orderBy(category)]]

AllTimeRows(category) ==
    {AllTimeRow(u, category) : u \in {v \in 1..Len(users) : AllTimeWhere(v, category)}}

\* the arrangements of a set of rows
Arrangements(rows) ==
    {r \in [1..Cardinality(rows) -> rows] :
        \A i, j \in 1..Cardinality(rows) : i # j => r[i] # r[j]}

OrderByScore_asc(rows) ==
    {r \in Arrangements(rows) :
        \A i \in 1..(Cardinality(rows) - 1) : r[i].score <= r[i + 1].score}

\* ORDER BY ${orderBy} DESC: the statement names no second key, so rows of equal
\* score come in any order
OrderByScore(rows) ==
    {r \in Arrangements(rows) :
        \A i \in 1..(Cardinality(rows) - 1) : r[i].score >= r[i + 1].score}

\* LIMIT ?
Limit(results, limit) ==
    SubSeq(results, 1, IF limit < Len(results) THEN limit ELSE Len(results))

\* results.map((row, index) => ({ rank: index + 1, ... })) over the 0-based index
AddRanks(results) ==
    [index \in 1..Len(results) |->
        [rank          |-> (index - 1) + 1,
         user_id       |-> results[index].user_id,
         display_name  |-> results[index].display_name,
         guardian_rank |-> results[index].guardian_rank,
         score         |-> results[index].score]]

LeaderboardResponse(period, category, limit, status, entries) ==
    [fn |-> "GET_leaderboard", period |-> period, category |-> category,
     limit |-> limit, status |-> status, entries |-> entries]

\* The period query joins users u to user_activities ua ON ... AND created_at >=
\* DATE('now', ...): created_at is a column of both tables and is not qualified,
\* so the statement is rejected as ambiguous and the handler answers 500.
GET_leaderboard(period, category, limit) ==
    /\ IF period = "all_time"
       THEN \E results \in OrderByScore(AllTimeRows(category)) :
               call' = LeaderboardResponse(period, category, limit, 200,
                                           AddRanks(Limit(results, limit)))
       ELSE call' = LeaderboardResponse(period, category, limit, 500, <<>>)
    /\ UNCHANGED dbvars

\* Database in which the seeded admin has recorded credits[u] site_closed outcomes
\* on the incidents of each registered user u, user by user.
RECURSIVE CreditsUpTo(_, _)
CreditsUpTo(credits, u) ==
    IF u = 0 THEN 0 ELSE credits[u] + CreditsUpTo(credits, u - 1)

CreditedUser(credits, k) ==
    CHOOSE u \in 1..MaxUsers :
        CreditsUpTo(credits, u - 1) < k /\ k <= CreditsUpTo(credits, u)

\* an incident reported under the name: the last imported one, or the one created
IncidentOfName(name) == IF name = "Ama" THEN MaxImported ELSE MaxImported + 1

LeaderboardInit ==
    /\ \E credits \in [1..MaxUsers -> 0..MaxCredits] :
          /\ users = [u \in 1..MaxUsers |->
                        [(IF u = 1 THEN NewUser("Kofi", "admin")
                                   ELSE NewUser("Ama", "citizen"))
                           EXCEPT !.enforcement_actions = credits[u],
                                  !.guardian_points =
                                      credits[u] * ACTIVITY_POINTS.enforcement_triggered]]
          /\ incidents = [i \in 1..(MaxImported + 1) |->
                            IF i <= MaxImported
                            THEN ImportedIncident("Ama", "verified")
                            ELSE [reported_by |-> "Kofi",
                                  verification_status |-> "pending",
                                  verified_by |-> NoUser]]
          /\ incident_outcomes =
                [k \in 1..CreditsUpTo(credits, MaxUsers) |->
                    NewOutcome(1, IncidentOfName(users[CreditedUser(credits, k)].name),
                               "site_closed")]
          /\ user_activities =
                [k \in 1..CreditsUpTo(credits, MaxUsers) |->
                    EnforcementActivity(CreditedUser(credits, k),
                                        IncidentOfName(users[CreditedUser(credits, k)].name),
                                        "site_closed")]
          /\ incident_updates = CreditsUpTo(credits, MaxUsers)
    /\ user_badges = {}
    /\ api_keys = <<>>
    /\ call = NoCall

LeaderboardNext ==
    \/ \E s \in 1..MaxUsers, b \in ProfileInputs : PATCH_profile(s, b)
    \/ \E s \in 1..MaxUsers, id \in IncidentIdInputs, t \in OutcomeTypeInputs :
          POST_outcome(s, id, t)
    \/ \E period \in Periods, category \in Categories, limit \in LimitInputs :
          GET_leaderboard(period, category, limit)

LeaderboardSpec == LeaderboardInit /\ [][LeaderboardNext]_vars

-----------------------------------------------------------------------------
(* Rank resolution *)

Qualifies(r, v, p) ==
    v >= RANK_REQUIREMENTS[r].min_verified /\ p >= RANK_REQUIREMENTS[r].min_points

HighestQualifying(v, p) ==
    CHOOSE r \in GuardianRank :
        /\ Qualifies(r, v, p)
        /\ \A q \in GuardianRank : Qualifies(q, v, p) => RankIndex(q) <= RankIndex(r)

RECURSIVE LadderWalk(_, _, _)
LadderWalk(i, v, p) ==
    IF i = 1 \/ Qualifies(ranks[i], v, p) THEN ranks[i] ELSE LadderWalk(i - 1, v, p)

\* C2: calculateRank returns the highest rank of the order observer < bronze <
\* silver < gold < diamond whose two RANK_REQUIREMENTS thresholds are both met,
\* which is the diamond-to-observer ladder walk; (5,50) gives bronze and (5,49)
\* gives observer.
C2_RankIsHighestQualifying ==
    (call.fn = "calculateRank" /\ call.returned) =>
        /\ call.result = HighestQualifying(call.verifiedReports, call.points)
        /\ call.result = LadderWalk(Len(ranks), call.verifiedReports, call.points)
        /\ (call.verifiedReports = 5 /\ call.points = 50) => call.result = "bronze"
        /\ (call.verifiedReports = 5 /\ call.points = 49) => call.result = "observer"

C2_Witness ==
    /\ call.fn = "calculateRank" /\ call.returned
    /\ call.verifiedReports = 5 /\ call.points = 50
    /\ call.result = "bronze"

\* C3: rank resolution is monotone: no input that is at least as large in both
\* arguments resolves to a lower rank.
C3_RankMonotone ==
    (call.fn = "calculateRank" /\ call.returned) =>
        \A v2 \in VerifiedInputs, p2 \in PointsInputs :
            (call.verifiedReports <= v2 /\ call.points <= p2) =>
                RankIndex(call.result) <= RankIndex(calculateRank(v2, p2))

C3_Witness ==
    /\ call.fn = "calculateRank" /\ call.returned
    /\ call.result = "silver"
    /\ \E v2 \in VerifiedInputs, p2 \in PointsInputs :
          /\ call.verifiedReports <= v2 /\ call.points <= p2
          /\ calculateRank(v2, p2) = "diamond"

-----------------------------------------------------------------------------
(* Badge evaluation *)

\* the threshold table: badge id -> snapshot field and threshold
ThresholdTable ==
    [first_report     |-> [field |-> "reports_submitted",     threshold |-> 1],
     verified_5       |-> [field |-> "reports_verified",      threshold |-> 5],
     verified_20      |-> [field |-> "reports_verified",      threshold |-> 20],
     verified_50      |-> [field |-> "reports_verified",      threshold |-> 50],
     enforcement_1    |-> [field |-> "enforcement_actions",   threshold |-> 1],
     enforcement_5    |-> [field |-> "enforcement_actions",   threshold |-> 5],
     water_guardian   |-> [field |-> "water_reports",         threshold |-> 10],
     forest_protector |-> [field |-> "deforestation_reports", threshold |-> 10],
     photo_evidence   |-> [field |-> "evidence_count",        threshold |-> 50],
     voice_reporter   |-> [field |-> "voice_reports",         threshold |-> 10],
     streak_7         |-> [field |-> "activity_streak",       threshold |-> 7],
     streak_30        |-> [field |-> "activity_streak",       threshold |-> 30],
     regional_expert  |-> [field |-> "is_regional_top",       threshold |-> 1]]

ThresholdMet(b, stats) ==
    IF ThresholdTable[b].field = "is_regional_top"
    THEN stats.is_regional_top
    ELSE stats[ThresholdTable[b].field] >= ThresholdTable[b].threshold

NewlyQualifying(stats) ==
    {b \in DOMAIN ThresholdTable :
        ThresholdMet(b, stats) /\ b \notin stats.existing_badges}

\* C4: checkEarnedBadges returns exactly the badges of the threshold table whose
\* threshold the snapshot meets and whose id is not already earned, each once;
\* 20 verified reports with verified_5 earned give verified_20 and not verified_5.
C4_ExactlyNewlyQualifying ==
    (call.fn = "checkEarnedBadges" /\ call.round = 1) =>
        /\ SeqRange(call.result) = NewlyQualifying(call.stats)
        /\ Len(call.result) = Cardinality(SeqRange(call.result))
        /\ (call.stats.reports_verified = 20 /\ call.stats.existing_badges = {"verified_5"})
              => ("verified_20" \in SeqRange(call.result)
                    /\ "verified_5" \notin SeqRange(call.result))
        /\ (call.stats.reports_verified = 20 /\ call.stats.existing_badges = {})
              => {"verified_5", "verified_20"} \subseteq SeqRange(call.result)

C4_Witness ==
    /\ call.fn = "checkEarnedBadges" /\ call.round = 1
    /\ call.stats.reports_verified = 20
    /\ call.stats.existing_badges = {"verified_5"}
    /\ "verified_20" \in SeqRange(call.result)

\* C5: once the badges returned by an evaluation have joined the earned set,
\* evaluating the same snapshot again returns the empty list.
C5_BadgeIdempotent ==
    (call.fn = "checkEarnedBadges" /\ call.round = 2) => call.result = <<>>

C5_Witness ==
    /\ call.fn = "checkEarnedBadges" /\ call.round = 2
    /\ "enforcement_1" \in call.stats.existing_badges
    /\ Cardinality(call.stats.existing_badges) > MaxExisting
    /\ call.result = <<>>

-----------------------------------------------------------------------------
(* Stored guardian columns *)

FairSpec == Init /\ [][Next]_vars /\ WF_vars(Next)

UserIds == 1..Len(users)

C6_BadgeEventuallyPersisted ==
    \A u \in 1..MaxUsers :
        (u \in UserIds
            /\ users[u].enforcement_actions >= ThresholdTable.enforcement_1.threshold)
        ~> ([user_id |-> u, badge_id |-> "enforcement_1"] \in user_badges)

\* the rank the resolver gives a user on the inputs the profile handler passes it
ResolvedRank(u) == calculateRank(VerifiedReportsOf(u), users[u].guardian_points)

RankPromotedIn(u, log, from) ==
    \E k \in (from + 1)..Len(log) :
        log[k].activity_type = "rank_promoted" /\ log[k].user_id = u

\* C8: whenever a step raises a user's resolved rank above the stored rank, a
\* rank_promoted activity for that user is recorded in the same step.
C8_PromotionRecorded ==
    [][\A u \in UserIds :
          (/\ RankIndex(ResolvedRank(u)') > RankIndex(ResolvedRank(u))
           /\ RankIndex(ResolvedRank(u)') > RankIndex(users[u].guardian_rank))
          => RankPromotedIn(u, user_activities', Len(user_activities))]_vars

\* C9: guardian_points, reports_submitted, reports_verified and
\* enforcement_actions of every user never decrease in any step.
C9_CountersNeverDecrease ==
    [][/\ Len(users') >= Len(users)
       /\ \A u \in UserIds :
             /\ users'[u].guardian_points >= users[u].guardian_points
             /\ users'[u].reports_submitted >= users[u].reports_submitted
             /\ users'[u].reports_verified >= users[u].reports_verified
             /\ users'[u].enforcement_actions >= users[u].enforcement_actions]_vars

C9_Witness ==
    \E u \in UserIds :
        /\ users[u].guardian_points > 0
        /\ users[u].enforcement_actions > 0
        /\ users[u].display_name # NULL

-----------------------------------------------------------------------------
(* Outcome verification *)

OutcomeIds == 1..Len(incident_outcomes)

\* C10 as stated: every outcome is created with verified = false, and a
\* verified outcome never returns to false.
C10_CreatedUnverified ==
    [][/\ \A k \in (Len(incident_outcomes) + 1)..Len(incident_outcomes') :
             incident_outcomes'[k].verified = 0
       /\ \A k \in OutcomeIds :
             incident_outcomes[k].verified = 1 => incident_outcomes'[k].verified = 1]_vars

\* C10 (amended): an outcome is created verified exactly when its creator is a
\* moderator, admin or authority, who is then its verified_by; no later step
\* changes verified, so a verified outcome never returns to false.
C10_VerifiedSetAtCreation ==
    [][/\ \A k \in (Len(incident_outcomes) + 1)..Len(incident_outcomes') :
             LET o == incident_outcomes'[k] IN
             /\ o.verified = 1 <=>
                   users[o.reported_by].role \in {"moderator", "admin", "authority"}
             /\ o.verified = 1 => o.verified_by = o.reported_by
             /\ o.verified = 0 => o.verified_by = NoUser
       /\ \A k \in OutcomeIds :
             /\ k <= Len(incident_outcomes')
             /\ incident_outcomes'[k].verified = incident_outcomes[k].verified]_vars

C10_Witness ==
    \E k \in OutcomeIds :
        /\ incident_outcomes[k].verified = 1
        /\ incident_outcomes[k].verified_by = incident_outcomes[k].reported_by
        /\ users[incident_outcomes[k].reported_by].role = "moderator"

-----------------------------------------------------------------------------
(* Outcomes: credit, impact and activity log *)

NewOutcomeIds == (Len(incident_outcomes) + 1)..Len(incident_outcomes')

\* C11: recording an outcome that is not verified leaves every reporter's
\* enforcement_actions and guardian_points unchanged, adds no user_activities
\* record and leaves the total_impact_score of every incident unchanged.
C11_UnverifiedOutcomeNoCredit ==
    [][\A k \in NewOutcomeIds :
          incident_outcomes'[k].verified = 0 =>
             /\ \A u \in UserIds :
                   /\ users'[u].enforcement_actions = users[u].enforcement_actions
                   /\ users'[u].guardian_points = users[u].guardian_points
             /\ user_activities' = user_activities
             /\ \A i \in 1..Len(incidents) :
                   total_impact_score(i)' = total_impact_score(i)]_vars

C11_Witness ==
    \E k \in OutcomeIds :
        LET o == incident_outcomes[k] IN
        /\ o.verified = 0
        /\ o.outcome_type = "site_closed"
        /\ o.impact_score > 0
        /\ total_impact_score(o.incident_id) = 0
        /\ user_activities = <<>>
        /\ \E u \in UsersNamed(incidents[o.incident_id].reported_by) :
              users[u].enforcement_actions = 0 /\ users[u].guardian_points = 0

\* outcomes on the incidents of user u of type site_closed that are verified
VerifiedSitesClosed(u) ==
    Cardinality({k \in OutcomeIds :
                    /\ incidents[incident_outcomes[k].incident_id].reported_by = users[u].name
                    /\ incident_outcomes[k].outcome_type = "site_closed"
                    /\ incident_outcomes[k].verified = 1})

\* C12: the sites_closed count the profile passes to calculateEnvironmentalImpact
\* is the number of verified site_closed outcomes on the user's incidents, so
\* unverified ones change neither hectares_protected nor water_bodies_saved.
C12_SitesClosedVerifiedOnly ==
    \A u \in UserIds :
        /\ sites_closed(u) = VerifiedSitesClosed(u)
        /\ ProfileImpact(u) =
              calculateEnvironmentalImpact(
                  [verified_reports    |-> VerifiedReportsOf(u),
                   enforcement_actions |-> users[u].enforcement_actions,
                   sites_closed        |-> VerifiedSitesClosed(u)])

\* C13: a case_dismissed outcome, verified or not, is stored with impact_score 0
\* and increments no user's enforcement_actions, guardian_points or sites_closed.
C13_DismissedNoCredit ==
    [][\A k \in NewOutcomeIds :
          incident_outcomes'[k].outcome_type = "case_dismissed" =>
             /\ incident_outcomes'[k].impact_score = 0
             /\ \A u \in UserIds :
                   /\ users'[u].enforcement_actions = users[u].enforcement_actions
                   /\ users'[u].guardian_points = users[u].guardian_points
                   /\ sites_closed(u)' = sites_closed(u)]_vars

C13_Witness ==
    \E k \in OutcomeIds :
        LET o == incident_outcomes[k] IN
        /\ o.outcome_type = "case_dismissed"
        /\ o.verified = 1
        /\ o.impact_score = 0
        /\ \E u \in UsersNamed(incidents[o.incident_id].reported_by) :
              /\ users[u].enforcement_actions = 0
              /\ users[u].guardian_points = 0
              /\ sites_closed(u) = 0

\* the weights of the outcome types, in tenths
WeightTable ==
    [investigation_opened  |-> 10,
     site_visit_conducted  |-> 20,
     warning_issued        |-> 25,
     equipment_seized      |-> 40,
     site_closed           |-> 50,
     arrests_made          |-> 50,
     remediation_started   |-> 60,
     remediation_completed |-> 80,
     case_dismissed        |-> 0]

\* C14: an outcome is created with the impact_score the weight table gives its
\* outcome_type, and no later step changes the impact_score of an outcome.
C14_ImpactScoreFixedAtCreation ==
    [][/\ \A k \in NewOutcomeIds :
             incident_outcomes'[k].impact_score =
                WeightTable[incident_outcomes'[k].outcome_type]
       /\ \A k \in OutcomeIds :
             /\ k <= Len(incident_outcomes')
             /\ incident_outcomes'[k].impact_score = incident_outcomes[k].impact_score
             /\ incident_outcomes'[k].outcome_type = incident_outcomes[k].outcome_type]_vars

C14_Witness ==
    \E k \in OutcomeIds :
        /\ incident_outcomes[k].outcome_type = "warning_issued"
        /\ incident_outcomes[k].impact_score = 25
        /\ users[incident_outcomes[k].reported_by].display_name # NULL

RECURSIVE SumPointsEarned(_, _)
SumPointsEarned(u, log) ==
    IF log = <<>> THEN 0
    ELSE (IF Head(log).user_id = u THEN Head(log).points_earned ELSE 0)
            + SumPointsEarned(u, Tail(log))

CountActivities(u, type) ==
    Cardinality({k \in 1..Len(user_activities) :
                    /\ user_activities[k].user_id = u
                    /\ user_activities[k].activity_type = type})

\* C15: between requests, every user's guardian_points is the sum of
\* points_earned over the user's activities and enforcement_actions is the
\* number of the user's enforcement_triggered activities.
C15_CountersAgreeWithLog ==
    \A u \in UserIds :
        /\ users[u].guardian_points = SumPointsEarned(u, user_activities)
        /\ users[u].enforcement_actions = CountActivities(u, "enforcement_triggered")

C15_Witness ==
    \E u \in UserIds :
        /\ users[u].guardian_points > 0
        /\ users[u].guardian_points = SumPointsEarned(u, user_activities)
        /\ CountActivities(u, "enforcement_triggered") > 0

-----------------------------------------------------------------------------
(* Leaderboard *)

\* a step in which the leaderboard handler answers from the database as it is
LeaderboardAnswered ==
    /\ call'.fn = "GET_leaderboard"
    /\ dbvars' = dbvars

EntryIds(response) == 1..Len(response.entries)

\* the users column a category scores by in the all_time period
CategoryCounter ==
    [points      |-> "guardian_points",
     reports     |-> "reports_submitted",
     verified    |-> "reports_verified",
     enforcement |-> "enforcement_actions"]

\* C16: a leaderboard is sorted by score in non-increasing order, the rank
\* fields of its entries are 1, 2, ..., n in list order, and in the all_time
\* period each score is the user's counter of the category.
C16_SortedAndRanked ==
    [][(LeaderboardAnswered /\ call'.status = 200) =>
          /\ \A i \in EntryIds(call') : call'.entries[i].rank = i
          /\ \A i, j \in EntryIds(call') :
                i < j => call'.entries[i].score >= call'.entries[j].score
          /\ call'.period = "all_time" =>
                \A i \in EntryIds(call') :
                    call'.entries[i].score =
                        users[call'.entries[i].user_id][CategoryCounter[call'.category]]]_vars

C16_Witness ==
    /\ call.fn = "GET_leaderboard"
    /\ call.status = 200 /\ call.period = "all_time" /\ call.category = "points"
    /\ Len(call.entries) >= 2
    /\ call.entries[1].rank = 1 /\ call.entries[2].rank = 2
    /\ call.entries[1].score > call.entries[2].score
    /\ call.entries[2].score = users[call.entries[2].user_id].guardian_points

C18_NoZeroScoreEntry ==
    [][LeaderboardAnswered =>
          \A i \in EntryIds(call') : call'.entries[i].score > 0]_vars

\* C19: every user of a leaderboard has show_on_leaderboard = 1 when the
\* leaderboard is computed: a user who has opted out appears in none.
C19_OptedOutAbsent ==
    [][LeaderboardAnswered =>
          \A i \in EntryIds(call') :
              users[call'.entries[i].user_id].show_on_leaderboard = 1]_vars

C19_Witness ==
    /\ call.fn = "GET_leaderboard" /\ call.status = 200
    /\ Len(call.entries) >= 1
    /\ \A i \in EntryIds(call) : users[call.entries[i].user_id].show_on_leaderboard = 1
    /\ \E u \in UserIds :
          /\ users[u].show_on_leaderboard = 0
          /\ users[u].display_name # NULL
          /\ users[u].guardian_points > 0
          /\ \A i \in EntryIds(call) : call.entries[i].user_id # u

\* the activity type a category counts in the weekly and monthly periods
CategoryActivity ==
    [reports     |-> "report_submitted",
     verified    |-> "report_verified",
     enforcement |-> "enforcement_triggered"]

\* score of user u over the activities of the trailing window; every activity
\* of these runs is recorded within the window of the request
WindowScore(u, category) ==
    IF category = "points"
    THEN SumPointsEarned(u, user_activities)
    ELSE CountActivities(u, CategoryActivity[category])

\* C20: a weekly or monthly leaderboard lists the eligible users with a
\* positive score over the activities of the trailing window, each with that
\* score: the sum of points_earned, or the count of the category's activities.
C20_WindowScores ==
    [][(LeaderboardAnswered /\ call'.period \in {"weekly", "monthly"}) =>
          /\ call'.status = 200
          /\ \A i \in EntryIds(call') :
                call'.entries[i].score =
                    WindowScore(call'.entries[i].user_id, call'.category)
          /\ \A u \in UserIds :
                (/\ users[u].show_on_leaderboard = 1
                 /\ WindowScore(u, call'.category) > 0
                 /\ Cardinality({v \in UserIds : users[v].show_on_leaderboard = 1})
                       <= call'.limit)
                    => \E i \in EntryIds(call') : call'.entries[i].user_id = u]_vars

-----------------------------------------------------------------------------
(* Rank progress and impact estimate *)

IsReturned(fn) == call.fn = fn /\ call.returned

\* the rank immediately above r
RankAbove(r) == ranks[RankIndex(r) + 1]

\* min(100, 100 * x / required) in tenths of a percent
ProgressToward(x, required, progress) ==
    /\ required > 0
    /\ IF x >= required THEN progress = 1000 ELSE progress * required = 1000 * x
    /\ progress \in 0..1000

C22_ImpactFormula ==
    (/\ IsReturned("calculateEnvironmentalImpact")
     /\ call.stats.verified_reports >= 0) =>
        LET v == call.stats.verified_reports
            e == call.stats.enforcement_actions
            c == call.stats.sites_closed
            w == call.result.water_bodies_saved - c
        IN  /\ call.result.hectares_protected = 5 * v + 20 * e + 100 * c
            /\ 10 * w <= v /\ v < 10 * (w + 1)
            /\ (v = 10 /\ e = 2 /\ c = 1) =>
                  /\ call.result.hectares_protected = 190
                  /\ call.result.water_bodies_saved = 2

C22_Witness ==
    /\ IsReturned("calculateEnvironmentalImpact")
    /\ call.stats = [verified_reports |-> 10, enforcement_actions |-> 2, sites_closed |-> 1]
    /\ call.result = [hectares_protected |-> 190, water_bodies_saved |-> 2]

\* C28: for the rank r that calculateRank resolves, getRankProgress returns no
\* next rank exactly when r is diamond, and below diamond at least one of the
\* two progress values is under 100.
C28_ProgressConsistentWithRank ==
    (/\ IsReturned("getRankProgress")
     /\ call.verifiedReports >= 0 /\ call.points >= 0
     /\ call.currentRank = calculateRank(call.verifiedReports, call.points)) =>
        /\ call.result.nextRank = NULL <=> call.currentRank = "diamond"
        /\ call.currentRank # "diamond" =>
              \/ call.result.verifiedProgress < 1000
              \/ call.result.pointsProgress < 1000

C28_Witness ==
    /\ IsReturned("getRankProgress")
    /\ call.verifiedReports = 22 /\ call.points = 198
    /\ call.currentRank = calculateRank(call.verifiedReports, call.points)
    /\ call.currentRank = "bronze"
    /\ call.result.verifiedProgress = 1000
    /\ call.result.pointsProgress = 990

-----------------------------------------------------------------------------
(* Inputs outside the enums and below zero *)

\* C23: a points lookup for an activity type outside the enum fails: it
\* returns neither 0 nor an undefined value.
C23_UnknownTypeFails ==
    (call.fn = "ACTIVITY_POINTS" /\ call.type \notin ActivityType) => ~call.returned

HasNegativeInput ==
    CASE call.fn \in {"calculateRank", "getRankProgress"} ->
            call.verifiedReports < 0 \/ call.points < 0
      [] call.fn = "calculateEnvironmentalImpact" ->
            \/ call.stats.verified_reports < 0
            \/ call.stats.enforcement_actions < 0
            \/ call.stats.sites_closed < 0
      [] call.fn = "checkEarnedBadges" ->
            call.stats.reports_verified < 0 \/ call.stats.enforcement_actions < 0
      [] OTHER -> FALSE

ReturnedAValue ==
    IF call.fn = "checkEarnedBadges" THEN call.round > 0 ELSE call.returned

\* C24: calculateRank, getRankProgress, checkEarnedBadges and
\* calculateEnvironmentalImpact return no rank, progress, badge list or impact
\* estimate for a negative count or point input.
C24_NegativeInputRejected ==
    HasNegativeInput => ~ReturnedAValue

-----------------------------------------------------------------------------
(* The catalog against the evaluator *)

AwardableBadges ==
    {id \in BadgeIds :
        \E s \in StatsInputs : id \in SeqRange(checkEarnedBadges(WithExisting(s, {})))}

\* C25: the catalog has 14 badges and the evaluator can return every one of
\* them: for each catalog id some snapshot makes checkEarnedBadges return it.
C25_EveryBadgeAwardable ==
    call.fn = "checkEarnedBadges" =>
        /\ Cardinality(BadgeIds) = 14
        /\ AwardableBadges = BadgeIds

-----------------------------------------------------------------------------
(* What one recorded outcome credits *)

ScoredOutcomeTypes == {"site_closed", "equipment_seized", "arrests_made"}

\* the registered users who carry the name of the reporter of outcome k's incident
ReportersOf(k) ==
    {u \in UserIds : users[u].name = incidents[incident_outcomes'[k].incident_id].reported_by}

\* user u gains 50 points and one enforcement action, nobody else changes, and
\* the log grows by one enforcement_triggered record of u with points_earned 50
CreditsExactly(u) ==
    /\ Len(users') = Len(users)
    /\ users'[u] = [users[u] EXCEPT !.enforcement_actions = @ + 1,
                                    !.guardian_points = @ + 50]
    /\ \A w \in UserIds \ {u} : users'[w] = users[w]
    /\ Len(user_activities') = Len(user_activities) + 1
    /\ SubSeq(user_activities', 1, Len(user_activities)) = user_activities
    /\ LET a == user_activities'[Len(user_activities')] IN
          /\ a.user_id = u
          /\ a.activity_type = "enforcement_triggered"
          /\ a.points_earned = 50
          /\ a.points_earned = ACTIVITY_POINTS[a.activity_type]

CreditsNothing ==
    /\ users' = users
    /\ user_activities' = user_activities

\* C26 as stated: a verified outcome of type site_closed, equipment_seized or
\* arrests_made adds 50 points and 1 enforcement action to exactly one user,
\* the incident's reporter, with one enforcement_triggered activity of 50
\* points; every other outcome credits nothing.
C26_VerifiedOutcomeCreditsOneUser ==
    [][\A k \in NewOutcomeIds :
          LET o == incident_outcomes'[k] IN
          IF o.verified = 1 /\ o.outcome_type \in ScoredOutcomeTypes
          THEN \E u \in ReportersOf(k) : CreditsExactly(u)
          ELSE CreditsNothing]_vars

\* C26 amended: a verified outcome of type site_closed, equipment_seized or
\* arrests_made on an incident whose reporter name belongs to a registered
\* user adds 50 points and 1 enforcement action to exactly one user of that
\* name, with one enforcement_triggered activity of 50 points; when no
\* registered user has the reporter's name it credits nothing, and every other
\* outcome credits nothing.
C26_RegisteredReporterCredited ==
    [][\A k \in NewOutcomeIds :
          LET o == incident_outcomes'[k] IN
          IF /\ o.verified = 1
             /\ o.outcome_type \in ScoredOutcomeTypes
             /\ ReportersOf(k) # {}
          THEN \E u \in ReportersOf(k) : CreditsExactly(u)
          ELSE CreditsNothing]_vars

C26_Witness ==
    /\ Len(incident_outcomes) = 1
    /\ incident_outcomes[1].verified = 1
    /\ incident_outcomes[1].outcome_type = "site_closed"
    /\ Len(user_activities) = 1
    /\ user_activities[1].points_earned = 50
    /\ users[user_activities[1].user_id].name =
          incidents[incident_outcomes[1].incident_id].reported_by
    /\ users[user_activities[1].user_id].enforcement_actions = 1
    /\ users[user_activities[1].user_id].guardian_points = 50
    /\ \E w \in UserIds : users[w].guardian_points = 0

-----------------------------------------------------------------------------
(* Concurrent POST /api/incidents/[id]/outcomes: one step per awaited statement *)

Requests == 1..MaxRequests

\* a request that has passed authentication and body validation
NewRequest(session, incidentId, outcome_type) ==
    [session |-> session, incidentId |-> incidentId, outcome_type |-> outcome_type,
     pc |-> "select_incident", reported_by |-> NULL, reporterUser |-> NoUser]

ConcurrentInit ==
    /\ \E role \in UserRole :
          users = <<NewUser("Kofi", role), NewUser("Ama", "citizen")>>
    /\ incidents = [i \in 1..MaxImported |-> ImportedIncident("Ama", "verified")]
    /\ incident_outcomes = <<>>
    /\ user_activities = <<>>
    /\ user_badges = {}
    /\ incident_updates = 0
    /\ api_keys = <<>>
    /\ \E ids \in [Requests -> {1, MaxImported}], types \in [Requests -> OutcomeTypeInputs] :
          call = [fn |-> "POST_outcome",
                  requests |-> [r \in Requests |-> NewRequest(1, ids[r], types[r])]]

\* SELECT id, reported_by FROM incidents WHERE id = ?
POST_SelectIncident(r) ==
    /\ call.requests[r].pc = "select_incident"
    /\ call.requests[r].incidentId \in 1..Len(incidents)
    /\ call' = [call EXCEPT
                  !.requests[r].reported_by = incidents[call.requests[r].incidentId].reported_by,
                  !.requests[r].pc = "insert_outcome"]
    /\ UNCHANGED dbvars

\* INSERT INTO incident_outcomes ... RETURNING *
POST_InsertOutcome(r) ==
    LET req == call.requests[r] IN
    /\ req.pc = "insert_outcome"
    /\ incident_outcomes' =
          Append(incident_outcomes, NewOutcome(req.session, req.incidentId, req.outcome_type))
    /\ call' = [call EXCEPT !.requests[r].pc =
                  IF /\ isPrivileged(users[req.session].role)
                     /\ IsEnforcementOutcome(req.outcome_type)
                  THEN "select_reporter" ELSE "insert_incident_update"]
    /\ UNCHANGED <<users, incidents, user_activities, user_badges, incident_updates, api_keys>>

\* SELECT id FROM users WHERE name = ?
POST_SelectReporter(r) ==
    LET req == call.requests[r] IN
    /\ req.pc = "select_reporter"
    /\ IF UsersNamed(req.reported_by) # {}
       THEN \E reporterUser \in UsersNamed(req.reported_by) :
               call' = [call EXCEPT !.requests[r].reporterUser = reporterUser,
                                    !.requests[r].pc = "update_users"]
       ELSE call' = [call EXCEPT !.requests[r].pc = "insert_incident_update"]
    /\ UNCHANGED dbvars

\* UPDATE users SET enforcement_actions = ... + 1, guardian_points = ... + ? WHERE id = ?
POST_UpdateUsers(r) ==
    LET req == call.requests[r] IN
    /\ req.pc = "update_users"
    /\ users' = CreditReporter(req.reporterUser)
    /\ call' = [call EXCEPT !.requests[r].pc = "insert_activity"]
    /\ UNCHANGED <<incidents, incident_outcomes, user_activities, user_badges,
                   incident_updates, api_keys>>

\* INSERT INTO user_activities ... 'enforcement_triggered'
POST_InsertActivity(r) ==
    LET req == call.requests[r] IN
    /\ req.pc = "insert_activity"
    /\ user_activities' =
          Append(user_activities,
                 EnforcementActivity(req.reporterUser, req.incidentId, req.outcome_type))
    /\ call' = [call EXCEPT !.requests[r].pc = "insert_incident_update"]
    /\ UNCHANGED <<users, incidents, incident_outcomes, user_badges, incident_updates, api_keys>>

\* INSERT INTO incident_updates ..., then the response
POST_InsertIncidentUpdate(r) ==
    /\ call.requests[r].pc = "insert_incident_update"
    /\ incident_updates' = incident_updates + 1
    /\ call' = [call EXCEPT !.requests[r].pc = "responded"]
    /\ UNCHANGED <<users, incidents, incident_outcomes, user_activities, user_badges, api_keys>>

ConcurrentNext ==
    \E r \in Requests :
        \/ POST_SelectIncident(r)
        \/ POST_InsertOutcome(r)
        \/ POST_SelectReporter(r)
        \/ POST_UpdateUsers(r)
        \/ POST_InsertActivity(r)
        \/ POST_InsertIncidentUpdate(r)

ConcurrentSpec == ConcurrentInit /\ [][ConcurrentNext]_vars

\* the requests that record a verified enforcement outcome
CreditingRequests ==
    {r \in Requests :
        /\ users[call.requests[r].session].role \in {"moderator", "admin", "authority"}
        /\ call.requests[r].outcome_type \in ScoredOutcomeTypes}

AllResponded == \A r \in Requests : call.requests[r].pc = "responded"

\* C27: whatever the interleaving of concurrent verified enforcement-outcome
\* POSTs that credit the same reporter, once all have responded the reporter's
\* enforcement_actions has grown by one and guardian_points by 50 per request
\* (2 and 100 for two requests), every request has its outcome record and
\* every crediting request its enforcement_triggered activity: no increment
\* is lost.
C27_NoLostIncrement ==
    (call.fn = "POST_outcome" /\ AllResponded) =>
        \A u \in UsersNamed("Ama") :
            /\ users[u].enforcement_actions = Cardinality(CreditingRequests)
            /\ users[u].guardian_points = 50 * Cardinality(CreditingRequests)
            /\ CountActivities(u, "enforcement_triggered") = Cardinality(CreditingRequests)
            /\ Len(incident_outcomes) = MaxRequests
            /\ incident_updates = MaxRequests

C27_Witness ==
    /\ call.fn = "POST_outcome"
    /\ AllResponded
    /\ Cardinality(CreditingRequests) >= 2
    /\ users[2].name = "Ama"
    /\ users[2].enforcement_actions >= 2
    /\ users[2].guardian_points >= 100
    /\ \E j, k \in OutcomeIds :
          /\ j < k
          /\ incident_outcomes[j].verified = 1
          /\ incident_outcomes[k].verified = 1
          /\ incident_outcomes[j].outcome_type = "site_closed"
          /\ incident_outcomes[k].outcome_type = "site_closed"

-----------------------------------------------------------------------------
(* Frame of PATCH /api/guardian/profile *)

\* the step writes a profile column of user u
ProfileWritten(u) ==
    \/ users'[u].display_name # users[u].display_name
    \/ users'[u].bio # users[u].bio
    \/ users'[u].show_on_leaderboard # users[u].show_on_leaderboard

\* C29: a profile update changes only display_name, bio and
\* show_on_leaderboard of the authenticated user's own row: that user's
\* guardian_points, guardian_rank, reports_submitted, reports_verified,
\* enforcement_actions and badges, every column of every other user and every
\* other table are unchanged.
C29_ProfileUpdateFrame ==
    [][\A u \in UserIds :
          ProfileWritten(u) =>
             /\ users'[u] = [users[u] EXCEPT
                                !.display_name = users'[u].display_name,
                                !.bio = users'[u].bio,
                                !.show_on_leaderboard = users'[u].show_on_leaderboard]
             /\ Len(users') = Len(users)
             /\ \A w \in UserIds \ {u} : users'[w] = users[w]
             /\ user_badges' = user_badges
             /\ UNCHANGED <<incidents, incident_outcomes, user_activities, incident_updates>>]_vars

C29_Witness ==
    \E u, w \in UserIds :
        /\ u # w
        /\ users[u].display_name = "Guardian"
        /\ users[u].show_on_leaderboard = 0
        /\ users[u].guardian_points = 50
        /\ users[u].enforcement_actions = 1
        /\ users[w].display_name = NULL
        /\ users[w].bio = NULL
        /\ users[w].show_on_leaderboard = 1

-----------------------------------------------------------------------------
(* validateApiKey: one step per awaited statement *)

ApiTier == {"free", "standard", "professional", "enterprise"}

RATE_LIMITS ==
    [free         |-> [daily |-> 100,    minute |-> 10],
     standard     |-> [daily |-> 10000,  minute |-> 100],
     professional |-> [daily |-> 100000, minute |-> 1000],
     enterprise   |-> [daily |-> -1,     minute |-> -1]]

\* the calendar day of last_used_at, against the day of the calls
LastUsedInputs == {NULL, "yesterday", "today"}

RequestsTodayInputs(tier) ==
    IF RATE_LIMITS[tier].daily = -1
    THEN {0}
    ELSE {0, RATE_LIMITS[tier].daily - 1, RATE_LIMITS[tier].daily}

\* a key row after serial use: requests_today counts the valid calls of the
\* day of last_used_at
ApiKeyInit ==
    /\ users = <<NewUser("Kofi", "admin")>>
    /\ incidents = <<>>
    /\ incident_outcomes = <<>>
    /\ user_activities = <<>>
    /\ user_badges = {}
    /\ incident_updates = 0
    /\ \E tier \in ApiTier, last_used_at \in LastUsedInputs,
          is_active \in {0, 1}, expired \in BOOLEAN :
          \E requests_today \in RequestsTodayInputs(tier) :
             /\ (last_used_at = NULL) => (requests_today = 0)
             /\ api_keys = <<[tier |-> tier, last_used_at |-> last_used_at,
                              requests_today |-> requests_today,
                              requests_total |-> requests_today,
                              is_active |-> is_active, expired |-> expired]>>
             /\ call = [fn |-> "validateApiKey",
                        valid_today |-> IF last_used_at = "today" THEN requests_today ELSE 0,
                        requests |-> [r \in Requests |->
                            [pc |-> "select", isNewDay |-> FALSE, requestsToday |-> 0,
                             valid |-> FALSE]]]

\* SELECT ... FROM api_keys WHERE key_hash = ?, and the checks on the row read
validateApiKey_Select(r) ==
    LET result == api_keys[1]
        rateLimits == RATE_LIMITS[result.tier]
        isNewDay == result.last_used_at = NULL \/ result.last_used_at # "today"
        requestsToday == IF isNewDay THEN 0 ELSE result.requests_today
    IN  /\ call.fn = "validateApiKey"
        /\ call.requests[r].pc = "select"
        /\ IF \/ result.is_active = 0
              \/ result.expired
              \/ (rateLimits.daily # -1 /\ requestsToday >= rateLimits.daily)
           THEN call' = [call EXCEPT !.requests[r].pc = "returned",
                                     !.requests[r].valid = FALSE]
           ELSE call' = [call EXCEPT !.requests[r].pc = "update",
                                     !.requests[r].isNewDay = isNewDay,
                                     !.requests[r].requestsToday = requestsToday]
        /\ UNCHANGED dbvars

\* UPDATE api_keys SET requests_today = ?, requests_total = requests_total + 1,
\* last_used_at = CURRENT_TIMESTAMP WHERE id = ?, and the valid response
validateApiKey_Update(r) ==
    LET req == call.requests[r] IN
    /\ call.fn = "validateApiKey"
    /\ req.pc = "update"
    /\ api_keys' =
          IF RATE_LIMITS[api_keys[1].tier].daily # -1
          THEN [api_keys EXCEPT
                  ![1].requests_today = IF req.isNewDay THEN 1 ELSE req.requestsToday + 1,
                  ![1].requests_total = @ + 1,
                  ![1].last_used_at = "today"]
          ELSE [api_keys EXCEPT
                  ![1].requests_total = @ + 1,
                  ![1].last_used_at = "today"]
    /\ call' = [call EXCEPT !.requests[r].pc = "returned",
                            !.requests[r].valid = TRUE,
                            !.valid_today = @ + 1]
    /\ UNCHANGED <<users, incidents, incident_outcomes, user_activities, user_badges,
                   incident_updates>>

ApiKeyNext ==
    \E r \in Requests :
        \/ validateApiKey_Select(r)
        \/ validateApiKey_Update(r)

ApiKeySpec == ApiKeyInit /\ [][ApiKeyNext]_vars

\* C30: for a key of a non-enterprise tier, under every interleaving of
\* concurrent validateApiKey calls, the number of calls that returned valid
\* within the day never exceeds the tier's daily limit, and the stored
\* requests_today never exceeds it.
C30_DailyLimitHolds ==
    (call.fn = "validateApiKey" /\ api_keys[1].tier # "enterprise") =>
        /\ call.valid_today <= RATE_LIMITS[api_keys[1].tier].daily
        /\ api_keys[1].requests_today <= RATE_LIMITS[api_keys[1].tier].daily

====
